---- MODULE Spec2Model ----
(***************************************************************************)
(* Model of the wouter WAMP message codec (wouter/router/message.py).      *)
(*                                                                         *)
(* Python values are tagged records: the field k names the Python type.    *)
(* A call either returns a value or raises; a raised exception is the      *)
(* record Raise(exc, text).  Each class of message.py is modelled by three *)
(* operators X_init, X_unmarshal and X_marshal translated from its         *)
(* __init__, unmarshal and marshal.                                        *)
(***************************************************************************)
EXTENDS Integers, Sequences, FiniteSets, TLC

VARIABLES
    pc,     \* position of the caller: idle, constructed, rejected, marshalled, received, decoded, remarshalled
    cls,    \* the class whose constructor or unmarshal was called last
    given,  \* the keyword arguments of the last constructor call
    obj,    \* the message the caller holds (None when it holds none)
    wire,   \* the wire form the caller holds (None when it holds none)
    ret,    \* what the last call returned or raised
    callers, \* concurrent use: per caller, the call it is in and how far it got
    shared,  \* concurrent use: the message and the wire form all callers hold
    connections, \* router: the module's set of registered websockets
    sessions,    \* router: the module's set of Session objects
    handlers,    \* router: per websocket, where its connection_handler is and its local message
    lastCall     \* router: the Session method called last, and on which Session

routerVars == <<connections, sessions, handlers, lastCall>>
vars == <<pc, cls, given, obj, wire, ret, callers, shared, connections, sessions, handlers, lastCall>>

-----------------------------------------------------------------------------
(* Bounds of the model *)

\* identifiers (request_id, session, ...) range over -1..MaxId
MaxId == 1
\* a received wire form carries up to MaxExtra elements after its last defined position
MaxExtra == 1
\* an args list holds up to MaxArgs elements
MaxArgs == 1
\* the number of callers that use the codec at the same time
NCallers == 2
\* the number of websockets that connect to the router
MaxConnections == 3

-----------------------------------------------------------------------------
(* Python values *)

None == [k |-> "None"]
IntV(n) == [k |-> "int", v |-> n]
StrV(s) == [k |-> "str", v |-> s]
ListV(s) == [k |-> "list", v |-> s]
\* a dict is its set of <<key, value>> items; keys are strings
DictV(items) == [k |-> "dict", v |-> items]

Raise(exc, text) == [k |-> "raise", exc |-> exc, text |-> text]
IsRaise(x) == x.k = "raise"

\* bool(x) as the if statement applies it
Truthy(x) ==
    CASE x.k = "None" -> FALSE
      [] x.k = "int"  -> x.v # 0
      [] x.k = "str"  -> x.v # ""
      [] x.k = "list" -> Len(x.v) > 0
      [] x.k = "dict" -> x.v # {}
      [] OTHER        -> TRUE

\* d.get(key): the value stored under key, None when there is none
Get(d, key) ==
    IF \E it \in d.v : it[1] = key
    THEN (CHOOSE it \in d.v : it[1] = key)[2]
    ELSE None

\* whether `for r in x` is defined for x
Iterable(x) == x.k \in {"list", "dict"}

\* the values `for r in x` visits: the elements of a list, the keys of a dict
Iter(x) ==
    CASE x.k = "list" -> {x.v[i] : i \in 1..Len(x.v)}
      [] x.k = "dict" -> {StrV(it[1]) : it \in x.v}

\* len(msg) and msg[i] of a list (Python indices start at 0)
PyLen(msg) == Len(msg.v)
Item(msg, i) == msg.v[i + 1]

-----------------------------------------------------------------------------
(* class Type(enum.Enum) *)

Member(name, value) == [k |-> "Type", name |-> name, value |-> value]

\* GOODBYE has the code 4 of the gap between ABORT and GOODBYE
Type_goodbye4 ==
    [ HELLO        |-> Member("HELLO", 1),
      WELCOME      |-> Member("WELCOME", 2),
      ABORT        |-> Member("ABORT", 3),
      GOODBYE      |-> Member("GOODBYE", 4),
      ERROR        |-> Member("ERROR", 8),
      PUBLISH      |-> Member("PUBLISH", 16),
      PUBLISHED    |-> Member("PUBLISHED", 17),
      SUBSCRIBE    |-> Member("SUBSCRIBE", 32),
      SUBSCRIBED   |-> Member("SUBSCRIBED", 33),
      UNSUBSCRIBE  |-> Member("UNSUBSCRIBE", 34),
      UNSUBSCRIBED |-> Member("UNSUBSCRIBED", 35),
      EVENT        |-> Member("EVENT", 36),
      CALL         |-> Member("CALL", 48),
      RESULT       |-> Member("RESULT", 50),
      REGISTER     |-> Member("REGISTER", 64),
      REGISTERED   |-> Member("REGISTERED", 65),
      UNREGISTER   |-> Member("UNREGISTER", 66),
      UNREGISTERED |-> Member("UNREGISTERED", 67),
      INVOCATION   |-> Member("INVOCATION", 68),
      YIELD        |-> Member("YIELD", 70) ]

\* the enumeration with a 21st member, the CANCEL tag of the protocol
Type_withcancel ==
    [ HELLO        |-> Member("HELLO", 1),
      WELCOME      |-> Member("WELCOME", 2),
      ABORT        |-> Member("ABORT", 3),
      GOODBYE      |-> Member("GOODBYE", 6),
      ERROR        |-> Member("ERROR", 8),
      PUBLISH      |-> Member("PUBLISH", 16),
      PUBLISHED    |-> Member("PUBLISHED", 17),
      SUBSCRIBE    |-> Member("SUBSCRIBE", 32),
      SUBSCRIBED   |-> Member("SUBSCRIBED", 33),
      UNSUBSCRIBE  |-> Member("UNSUBSCRIBE", 34),
      UNSUBSCRIBED |-> Member("UNSUBSCRIBED", 35),
      EVENT        |-> Member("EVENT", 36),
      CALL         |-> Member("CALL", 48),
      CANCEL       |-> Member("CANCEL", 49),
      RESULT       |-> Member("RESULT", 50),
      REGISTER     |-> Member("REGISTER", 64),
      REGISTERED   |-> Member("REGISTERED", 65),
      UNREGISTER   |-> Member("UNREGISTER", 66),
      UNREGISTERED |-> Member("UNREGISTERED", 67),
      INVOCATION   |-> Member("INVOCATION", 68),
      YIELD        |-> Member("YIELD", 70) ]

Type ==
    [ HELLO        |-> Member("HELLO", 1),
      WELCOME      |-> Member("WELCOME", 2),
      ABORT        |-> Member("ABORT", 3),
      GOODBYE      |-> Member("GOODBYE", 6),
      ERROR        |-> Member("ERROR", 8),
      PUBLISH      |-> Member("PUBLISH", 16),
      PUBLISHED    |-> Member("PUBLISHED", 17),
      SUBSCRIBE    |-> Member("SUBSCRIBE", 32),
      SUBSCRIBED   |-> Member("SUBSCRIBED", 33),
      UNSUBSCRIBE  |-> Member("UNSUBSCRIBE", 34),
      UNSUBSCRIBED |-> Member("UNSUBSCRIBED", 35),
      EVENT        |-> Member("EVENT", 36),
      CALL         |-> Member("CALL", 48),
      RESULT       |-> Member("RESULT", 50),
      REGISTER     |-> Member("REGISTER", 64),
      REGISTERED   |-> Member("REGISTERED", 65),
      UNREGISTER   |-> Member("UNREGISTER", 66),
      UNREGISTERED |-> Member("UNREGISTERED", 67),
      INVOCATION   |-> Member("INVOCATION", 68),
      YIELD        |-> Member("YIELD", 70) ]

\* Type(x) making up a member for a value that has none, instead of raising
TypeCall_lenient(x) ==
    IF x.k = "Type" THEN x
    ELSE IF \E n \in DOMAIN Type : IntV(Type[n].value) = x
    THEN Type[CHOOSE n \in DOMAIN Type : IntV(Type[n].value) = x]
    ELSE Member("UNDEFINED", x.v)

\* Type(x): x itself when it is a member, else the member whose value is x;
\* ValueError when there is none
TypeCall(x) ==
    IF x.k = "Type" THEN x
    ELSE IF \E n \in DOMAIN Type : IntV(Type[n].value) = x
    THEN Type[CHOOSE n \in DOMAIN Type : IntV(Type[n].value) = x]
    ELSE Raise("ValueError", "not a valid Type")

-----------------------------------------------------------------------------
(* class Hello *)

\* any() where the code has all(): one allowed role is enough
Hello_init_any(realm, details) ==
    IF details.k # "dict" THEN Raise("AttributeError", "get")
    ELSE IF Truthy(Get(details, "roles"))
    THEN IF ~Iterable(Get(details, "roles")) THEN Raise("TypeError", "not iterable")
         ELSE IF \E r \in Iter(Get(details, "roles")) :
                    r \in {StrV("publisher"), StrV("subscriber"), StrV("caller"), StrV("callee")}
         THEN [k |-> "Hello", type |-> Type.HELLO, realm |-> realm, details |-> details]
         ELSE Raise("ValueError", "Invalid message roles")
    ELSE Raise("ValueError", "Invalid message details")

Hello_init(realm, details) ==
    IF details.k # "dict" THEN Raise("AttributeError", "get")
    ELSE IF Truthy(Get(details, "roles"))
    THEN IF ~Iterable(Get(details, "roles")) THEN Raise("TypeError", "not iterable")
         ELSE IF \A r \in Iter(Get(details, "roles")) :
                    r \in {StrV("publisher"), StrV("subscriber"), StrV("caller"), StrV("callee")}
         THEN [k |-> "Hello", type |-> Type.HELLO, realm |-> realm, details |-> details]
         ELSE Raise("ValueError", "Invalid message roles")
    ELSE Raise("ValueError", "Invalid message details")

\* Hello.unmarshal storing the positions without running the constructor's checks
Hello_unmarshal_unchecked(msg) ==
    IF PyLen(msg) < 1 THEN Raise("IndexError", "list index out of range")
    ELSE IF Item(msg, 0) = IntV(Type.HELLO.value)
    THEN IF PyLen(msg) < 3 THEN Raise("IndexError", "list index out of range")
         ELSE [k |-> "Hello", type |-> Type.HELLO, realm |-> Item(msg, 1), details |-> Item(msg, 2)]
    ELSE Raise("ValueError", "Invalid message")

Hello_unmarshal(msg) ==
    IF PyLen(msg) < 1 THEN Raise("IndexError", "list index out of range")
    ELSE IF Item(msg, 0) = IntV(Type.HELLO.value)
    THEN IF PyLen(msg) < 3 THEN Raise("IndexError", "list index out of range")
         ELSE Hello_init(Item(msg, 1), Item(msg, 2))
    ELSE Raise("ValueError", "Invalid message")

Hello_marshal(self) ==
    ListV(<<IntV(self.type.value), self.realm, self.details>>)

-----------------------------------------------------------------------------
(* class Welcome *)

\* the roles are checked against the client roles of Hello
Welcome_init_clientroles(session, details) ==
    IF details.k # "dict" THEN Raise("AttributeError", "get")
    ELSE IF Truthy(Get(details, "roles"))
    THEN IF ~Iterable(Get(details, "roles")) THEN Raise("TypeError", "not iterable")
         ELSE IF \A r \in Iter(Get(details, "roles")) :
                    r \in {StrV("publisher"), StrV("subscriber"), StrV("caller"), StrV("callee")}
         THEN [k |-> "Welcome", type |-> Type.WELCOME, session |-> session, details |-> details]
         ELSE Raise("ValueError", "Invalid message details")
    ELSE Raise("ValueError", "Invalid message details")

Welcome_init(session, details) ==
    IF details.k # "dict" THEN Raise("AttributeError", "get")
    ELSE IF Truthy(Get(details, "roles"))
    THEN IF ~Iterable(Get(details, "roles")) THEN Raise("TypeError", "not iterable")
         ELSE IF \A r \in Iter(Get(details, "roles")) : r \in {StrV("dealer"), StrV("broker")}
         THEN [k |-> "Welcome", type |-> Type.WELCOME, session |-> session, details |-> details]
         ELSE Raise("ValueError", "Invalid message details")
    ELSE Raise("ValueError", "Invalid message details")

Welcome_unmarshal(msg) ==
    IF PyLen(msg) < 1 THEN Raise("IndexError", "list index out of range")
    ELSE IF Item(msg, 0) = IntV(Type.WELCOME.value)
    THEN IF PyLen(msg) < 3 THEN Raise("IndexError", "list index out of range")
         ELSE Welcome_init(Item(msg, 1), Item(msg, 2))
    ELSE Raise("ValueError", "Invalid message")

Welcome_marshal(self) ==
    ListV(<<IntV(self.type.value), self.session, self.details>>)

-----------------------------------------------------------------------------
(* class Abort *)

Abort_init(details, reason) ==
    [k |-> "Abort", type |-> Type.ABORT, details |-> details, reason |-> reason]

Abort_unmarshal(msg) ==
    IF PyLen(msg) < 1 THEN Raise("IndexError", "list index out of range")
    ELSE IF Item(msg, 0) = IntV(Type.ABORT.value)
    THEN IF PyLen(msg) < 3 THEN Raise("IndexError", "list index out of range")
         ELSE Abort_init(Item(msg, 1), Item(msg, 2))
    ELSE Raise("ValueError", "Invalid message")

\* reason and details are emitted in each other's position
Abort_marshal_swapped(self) ==
    ListV(<<IntV(self.type.value), self.reason, self.details>>)

Abort_marshal(self) ==
    ListV(<<IntV(self.type.value), self.details, self.reason>>)

-----------------------------------------------------------------------------
(* class Goodbye *)

Goodbye_init(details, reason) ==
    [k |-> "Goodbye", type |-> Type.GOODBYE, details |-> details, reason |-> reason]

Goodbye_unmarshal(msg) ==
    IF PyLen(msg) < 1 THEN Raise("IndexError", "list index out of range")
    ELSE IF Item(msg, 0) = IntV(Type.GOODBYE.value)
    THEN IF PyLen(msg) < 3 THEN Raise("IndexError", "list index out of range")
         ELSE Goodbye_init(Item(msg, 1), Item(msg, 2))
    ELSE Raise("ValueError", "Invalid message")

Goodbye_marshal(self) ==
    ListV(<<IntV(self.type.value), self.details, self.reason>>)

-----------------------------------------------------------------------------
(* class Error *)

\* an args that is not given becomes an empty list
Error_init_defaultargs(request_type, request_id, details, error, args, kwargs) ==
    [k |-> "Error", type |-> Type.ERROR, request_type |-> request_type,
     request_id |-> request_id, details |-> details, error |-> error,
     args |-> IF args = None THEN ListV(<<>>) ELSE args, kwargs |-> kwargs]

Error_init(request_type, request_id, details, error, args, kwargs) ==
    [k |-> "Error", type |-> Type.ERROR, request_type |-> request_type,
     request_id |-> request_id, details |-> details, error |-> error,
     args |-> args, kwargs |-> kwargs]

\* msg[1] is passed on as it is, without Type()
Error_unmarshal_rawtype(msg) ==
    IF PyLen(msg) < 1 THEN Raise("IndexError", "list index out of range")
    ELSE IF Item(msg, 0) = IntV(Type.ERROR.value)
    THEN IF PyLen(msg) > 6
         THEN Error_init(Item(msg, 1), Item(msg, 2), Item(msg, 3), Item(msg, 4),
                         Item(msg, 5), Item(msg, 6))
         ELSE IF PyLen(msg) > 5
         THEN Error_init(Item(msg, 1), Item(msg, 2), Item(msg, 3), Item(msg, 4),
                         Item(msg, 5), None)
         ELSE IF PyLen(msg) > 4
         THEN Error_init(Item(msg, 1), Item(msg, 2), Item(msg, 3), Item(msg, 4), None, None)
         ELSE None
    ELSE None

\* no raise follows the if: a wrong tag or a short form falls off the end and returns None
Error_unmarshal(msg) ==
    IF PyLen(msg) < 1 THEN Raise("IndexError", "list index out of range")
    ELSE IF Item(msg, 0) = IntV(Type.ERROR.value)
    THEN IF PyLen(msg) > 6
         THEN IF IsRaise(TypeCall(Item(msg, 1))) THEN TypeCall(Item(msg, 1))
              ELSE Error_init(TypeCall(Item(msg, 1)), Item(msg, 2), Item(msg, 3), Item(msg, 4),
                              Item(msg, 5), Item(msg, 6))
         ELSE IF PyLen(msg) > 5
         THEN IF IsRaise(TypeCall(Item(msg, 1))) THEN TypeCall(Item(msg, 1))
              ELSE Error_init(TypeCall(Item(msg, 1)), Item(msg, 2), Item(msg, 3), Item(msg, 4),
                              Item(msg, 5), None)
         ELSE IF PyLen(msg) > 4
         THEN IF IsRaise(TypeCall(Item(msg, 1))) THEN TypeCall(Item(msg, 1))
              ELSE Error_init(TypeCall(Item(msg, 1)), Item(msg, 2), Item(msg, 3), Item(msg, 4),
                              None, None)
         ELSE None
    ELSE None

\* self.request_type.value is an attribute lookup: it fails on anything but a Type member
Error_marshal(self) ==
    IF self.request_type.k # "Type" THEN Raise("AttributeError", "value")
    ELSE IF Truthy(self.kwargs)
    THEN ListV(<<IntV(self.type.value), IntV(self.request_type.value), self.request_id,
                 self.details, self.error, self.args, self.kwargs>>)
    ELSE IF Truthy(self.args)
    THEN ListV(<<IntV(self.type.value), IntV(self.request_type.value), self.request_id,
                 self.details, self.error, self.args>>)
    ELSE ListV(<<IntV(self.type.value), IntV(self.request_type.value), self.request_id,
                 self.details, self.error>>)

-----------------------------------------------------------------------------
(* class Publish *)

Publish_init(request_id, options, topic, args, kwargs) ==
    [k |-> "Publish", type |-> Type.PUBLISH, request_id |-> request_id, options |-> options, topic |-> topic,
     args |-> args, kwargs |-> kwargs]

\* the one-argument branch forgets args
Publish_unmarshal_dropargs(msg) ==
    IF PyLen(msg) < 1 THEN Raise("IndexError", "list index out of range")
    ELSE IF Item(msg, 0) = IntV(Type.PUBLISH.value)
    THEN IF PyLen(msg) > 5
         THEN Publish_init(Item(msg, 1), Item(msg, 2), Item(msg, 3), Item(msg, 4), Item(msg, 5))
         ELSE IF PyLen(msg) > 3
         THEN Publish_init(Item(msg, 1), Item(msg, 2), Item(msg, 3), None, None)
         ELSE Raise("ValueError", "Invalid message")
    ELSE Raise("ValueError", "Invalid message")

Publish_unmarshal(msg) ==
    IF PyLen(msg) < 1 THEN Raise("IndexError", "list index out of range")
    ELSE IF Item(msg, 0) = IntV(Type.PUBLISH.value)
    THEN IF PyLen(msg) > 5
         THEN Publish_init(Item(msg, 1), Item(msg, 2), Item(msg, 3), Item(msg, 4), Item(msg, 5))
         ELSE IF PyLen(msg) > 4
         THEN Publish_init(Item(msg, 1), Item(msg, 2), Item(msg, 3), Item(msg, 4), None)
         ELSE IF PyLen(msg) > 3
         THEN Publish_init(Item(msg, 1), Item(msg, 2), Item(msg, 3), None, None)
         ELSE Raise("ValueError", "Invalid message")
    ELSE Raise("ValueError", "Invalid message")

\* Publish.marshal testing the tail for presence (is not None) instead of truth
Publish_marshal_notnone(self) ==
    IF self.kwargs # None
    THEN ListV(<<IntV(self.type.value), self.request_id, self.options, self.topic, self.args, self.kwargs>>)
    ELSE IF self.args # None
    THEN ListV(<<IntV(self.type.value), self.request_id, self.options, self.topic, self.args>>)
    ELSE ListV(<<IntV(self.type.value), self.request_id, self.options, self.topic>>)

Publish_marshal(self) ==
    IF Truthy(self.kwargs)
    THEN ListV(<<IntV(self.type.value), self.request_id, self.options, self.topic, self.args, self.kwargs>>)
    ELSE IF Truthy(self.args)
    THEN ListV(<<IntV(self.type.value), self.request_id, self.options, self.topic, self.args>>)
    ELSE ListV(<<IntV(self.type.value), self.request_id, self.options, self.topic>>)

-----------------------------------------------------------------------------
(* class Published *)

Published_init(request_id, publication_id) ==
    [k |-> "Published", type |-> Type.PUBLISHED, request_id |-> request_id, publication_id |-> publication_id]

Published_unmarshal(msg) ==
    IF PyLen(msg) < 1 THEN Raise("IndexError", "list index out of range")
    ELSE IF Item(msg, 0) = IntV(Type.PUBLISHED.value)
    THEN IF PyLen(msg) < 3 THEN Raise("IndexError", "list index out of range")
         ELSE Published_init(Item(msg, 1), Item(msg, 2))
    ELSE Raise("ValueError", "Invalid message")

Published_marshal(self) ==
    ListV(<<IntV(self.type.value), self.request_id, self.publication_id>>)

-----------------------------------------------------------------------------
(* class Subscribe *)

Subscribe_init(request_id, options, topic) ==
    [k |-> "Subscribe", type |-> Type.SUBSCRIBE, request_id |-> request_id, options |-> options, topic |-> topic]

Subscribe_unmarshal(msg) ==
    IF PyLen(msg) < 1 THEN Raise("IndexError", "list index out of range")
    ELSE IF Item(msg, 0) = IntV(Type.SUBSCRIBE.value)
    THEN IF PyLen(msg) < 4 THEN Raise("IndexError", "list index out of range")
         ELSE Subscribe_init(Item(msg, 1), Item(msg, 2), Item(msg, 3))
    ELSE Raise("ValueError", "Invalid message")

Subscribe_marshal(self) ==
    ListV(<<IntV(self.type.value), self.request_id, self.options, self.topic>>)

-----------------------------------------------------------------------------
(* class Subscribed *)

\* the type of the request is passed to Message.__init__, not that of the reply
Subscribed_init_requesttype(request_id, subscription_id) ==
    [k |-> "Subscribed", type |-> Type.SUBSCRIBE, request_id |-> request_id,
     subscription_id |-> subscription_id]

Subscribed_init(request_id, subscription_id) ==
    [k |-> "Subscribed", type |-> Type.SUBSCRIBED, request_id |-> request_id, subscription_id |-> subscription_id]

Subscribed_unmarshal(msg) ==
    IF PyLen(msg) < 1 THEN Raise("IndexError", "list index out of range")
    ELSE IF Item(msg, 0) = IntV(Type.SUBSCRIBED.value)
    THEN IF PyLen(msg) < 3 THEN Raise("IndexError", "list index out of range")
         ELSE Subscribed_init(Item(msg, 1), Item(msg, 2))
    ELSE Raise("ValueError", "Invalid message")

Subscribed_marshal(self) ==
    ListV(<<IntV(self.type.value), self.request_id, self.subscription_id>>)

-----------------------------------------------------------------------------
(* class Unsubscribe *)

Unsubscribe_init(request_id, subscription_id) ==
    [k |-> "Unsubscribe", type |-> Type.UNSUBSCRIBE, request_id |-> request_id, subscription_id |-> subscription_id]

Unsubscribe_unmarshal(msg) ==
    IF PyLen(msg) < 1 THEN Raise("IndexError", "list index out of range")
    ELSE IF Item(msg, 0) = IntV(Type.UNSUBSCRIBE.value)
    THEN IF PyLen(msg) < 3 THEN Raise("IndexError", "list index out of range")
         ELSE Unsubscribe_init(Item(msg, 1), Item(msg, 2))
    ELSE Raise("ValueError", "Invalid message")

Unsubscribe_marshal(self) ==
    ListV(<<IntV(self.type.value), self.request_id, self.subscription_id>>)

-----------------------------------------------------------------------------
(* class Unsubscribed *)

Unsubscribed_init(request_id) ==
    [k |-> "Unsubscribed", type |-> Type.UNSUBSCRIBED, request_id |-> request_id]

Unsubscribed_unmarshal(msg) ==
    IF PyLen(msg) < 1 THEN Raise("IndexError", "list index out of range")
    ELSE IF Item(msg, 0) = IntV(Type.UNSUBSCRIBED.value)
    THEN IF PyLen(msg) < 2 THEN Raise("IndexError", "list index out of range")
         ELSE Unsubscribed_init(Item(msg, 1))
    ELSE Raise("ValueError", "Invalid message")

Unsubscribed_marshal(self) ==
    ListV(<<IntV(self.type.value), self.request_id>>)

-----------------------------------------------------------------------------
(* class Event *)

Event_init(subscription_id, publication_id, details, args, kwargs) ==
    [k |-> "Event", type |-> Type.EVENT, subscription_id |-> subscription_id, publication_id |-> publication_id, details |-> details,
     args |-> args, kwargs |-> kwargs]

\* Event.unmarshal filling an absent args in front of kwargs with an empty list
Event_unmarshal_fillsargs(msg) ==
    IF PyLen(msg) < 1 THEN Raise("IndexError", "list index out of range")
    ELSE IF Item(msg, 0) = IntV(Type.EVENT.value)
    THEN IF PyLen(msg) > 5
         THEN Event_init(Item(msg, 1), Item(msg, 2), Item(msg, 3),
                         IF Item(msg, 4) = None THEN ListV(<<>>) ELSE Item(msg, 4), Item(msg, 5))
         ELSE IF PyLen(msg) > 4
         THEN Event_init(Item(msg, 1), Item(msg, 2), Item(msg, 3), Item(msg, 4), None)
         ELSE IF PyLen(msg) > 3
         THEN Event_init(Item(msg, 1), Item(msg, 2), Item(msg, 3), None, None)
         ELSE Raise("ValueError", "Invalid message")
    ELSE Raise("ValueError", "Invalid message")

Event_unmarshal(msg) ==
    IF PyLen(msg) < 1 THEN Raise("IndexError", "list index out of range")
    ELSE IF Item(msg, 0) = IntV(Type.EVENT.value)
    THEN IF PyLen(msg) > 5
         THEN Event_init(Item(msg, 1), Item(msg, 2), Item(msg, 3), Item(msg, 4), Item(msg, 5))
         ELSE IF PyLen(msg) > 4
         THEN Event_init(Item(msg, 1), Item(msg, 2), Item(msg, 3), Item(msg, 4), None)
         ELSE IF PyLen(msg) > 3
         THEN Event_init(Item(msg, 1), Item(msg, 2), Item(msg, 3), None, None)
         ELSE Raise("ValueError", "Invalid message")
    ELSE Raise("ValueError", "Invalid message")

Event_marshal(self) ==
    IF Truthy(self.kwargs)
    THEN ListV(<<IntV(self.type.value), self.subscription_id, self.publication_id, self.details, self.args, self.kwargs>>)
    ELSE IF Truthy(self.args)
    THEN ListV(<<IntV(self.type.value), self.subscription_id, self.publication_id, self.details, self.args>>)
    ELSE ListV(<<IntV(self.type.value), self.subscription_id, self.publication_id, self.details>>)

-----------------------------------------------------------------------------
(* class Call *)

Call_init(request_id, options, procedure, args, kwargs) ==
    [k |-> "Call", type |-> Type.CALL, request_id |-> request_id, options |-> options, procedure |-> procedure,
     args |-> args, kwargs |-> kwargs]

\* options and procedure are read from each other's position
Call_unmarshal_swapped(msg) ==
    IF PyLen(msg) < 1 THEN Raise("IndexError", "list index out of range")
    ELSE IF Item(msg, 0) = IntV(Type.CALL.value)
    THEN IF PyLen(msg) > 5
         THEN Call_init(Item(msg, 1), Item(msg, 3), Item(msg, 2), Item(msg, 4), Item(msg, 5))
         ELSE IF PyLen(msg) > 4
         THEN Call_init(Item(msg, 1), Item(msg, 3), Item(msg, 2), Item(msg, 4), None)
         ELSE IF PyLen(msg) > 3
         THEN Call_init(Item(msg, 1), Item(msg, 3), Item(msg, 2), None, None)
         ELSE Raise("ValueError", "Invalid message")
    ELSE Raise("ValueError", "Invalid message")

Call_unmarshal(msg) ==
    IF PyLen(msg) < 1 THEN Raise("IndexError", "list index out of range")
    ELSE IF Item(msg, 0) = IntV(Type.CALL.value)
    THEN IF PyLen(msg) > 5
         THEN Call_init(Item(msg, 1), Item(msg, 2), Item(msg, 3), Item(msg, 4), Item(msg, 5))
         ELSE IF PyLen(msg) > 4
         THEN Call_init(Item(msg, 1), Item(msg, 2), Item(msg, 3), Item(msg, 4), None)
         ELSE IF PyLen(msg) > 3
         THEN Call_init(Item(msg, 1), Item(msg, 2), Item(msg, 3), None, None)
         ELSE Raise("ValueError", "Invalid message")
    ELSE Raise("ValueError", "Invalid message")

Call_marshal(self) ==
    IF Truthy(self.kwargs)
    THEN ListV(<<IntV(self.type.value), self.request_id, self.options, self.procedure, self.args, self.kwargs>>)
    ELSE IF Truthy(self.args)
    THEN ListV(<<IntV(self.type.value), self.request_id, self.options, self.procedure, self.args>>)
    ELSE ListV(<<IntV(self.type.value), self.request_id, self.options, self.procedure>>)

-----------------------------------------------------------------------------
(* class Result *)

Result_init(request_id, details, args, kwargs) ==
    [k |-> "Result", type |-> Type.RESULT, request_id |-> request_id, details |-> details,
     args |-> args, kwargs |-> kwargs]

Result_unmarshal(msg) ==
    IF PyLen(msg) < 1 THEN Raise("IndexError", "list index out of range")
    ELSE IF Item(msg, 0) = IntV(Type.RESULT.value)
    THEN IF PyLen(msg) > 4
         THEN Result_init(Item(msg, 1), Item(msg, 2), Item(msg, 3), Item(msg, 4))
         ELSE IF PyLen(msg) > 3
         THEN Result_init(Item(msg, 1), Item(msg, 2), Item(msg, 3), None)
         ELSE IF PyLen(msg) > 2
         THEN Result_init(Item(msg, 1), Item(msg, 2), None, None)
         ELSE Raise("ValueError", "Invalid message")
    ELSE Raise("ValueError", "Invalid message")

\* args is tested before kwargs
Result_marshal_argsfirst(self) ==
    IF Truthy(self.args)
    THEN IF Truthy(self.kwargs)
         THEN ListV(<<IntV(self.type.value), self.request_id, self.details, self.args, self.kwargs>>)
         ELSE ListV(<<IntV(self.type.value), self.request_id, self.details, self.args>>)
    ELSE ListV(<<IntV(self.type.value), self.request_id, self.details>>)

Result_marshal(self) ==
    IF Truthy(self.kwargs)
    THEN ListV(<<IntV(self.type.value), self.request_id, self.details, self.args, self.kwargs>>)
    ELSE IF Truthy(self.args)
    THEN ListV(<<IntV(self.type.value), self.request_id, self.details, self.args>>)
    ELSE ListV(<<IntV(self.type.value), self.request_id, self.details>>)

-----------------------------------------------------------------------------
(* class Register *)

Register_init(request_id, options, procedure) ==
    [k |-> "Register", type |-> Type.REGISTER, request_id |-> request_id, options |-> options, procedure |-> procedure]

Register_unmarshal(msg) ==
    IF PyLen(msg) < 1 THEN Raise("IndexError", "list index out of range")
    ELSE IF Item(msg, 0) = IntV(Type.REGISTER.value)
    THEN IF PyLen(msg) < 4 THEN Raise("IndexError", "list index out of range")
         ELSE Register_init(Item(msg, 1), Item(msg, 2), Item(msg, 3))
    ELSE Raise("ValueError", "Invalid message")

Register_marshal(self) ==
    ListV(<<IntV(self.type.value), self.request_id, self.options, self.procedure>>)

-----------------------------------------------------------------------------
(* class Registered *)

Registered_init(request_id, registration_id) ==
    [k |-> "Registered", type |-> Type.REGISTERED, request_id |-> request_id, registration_id |-> registration_id]

Registered_unmarshal(msg) ==
    IF PyLen(msg) < 1 THEN Raise("IndexError", "list index out of range")
    ELSE IF Item(msg, 0) = IntV(Type.REGISTERED.value)
    THEN IF PyLen(msg) < 3 THEN Raise("IndexError", "list index out of range")
         ELSE Registered_init(Item(msg, 1), Item(msg, 2))
    ELSE Raise("ValueError", "Invalid message")

Registered_marshal(self) ==
    ListV(<<IntV(self.type.value), self.request_id, self.registration_id>>)

-----------------------------------------------------------------------------
(* class Unregister *)

\* the type of the neighbouring class is passed to Message.__init__
Unregister_init_wrongtype(request_id, registration_id) ==
    [k |-> "Unregister", type |-> Type.UNREGISTERED, request_id |-> request_id,
     registration_id |-> registration_id]

Unregister_init(request_id, registration_id) ==
    [k |-> "Unregister", type |-> Type.UNREGISTER, request_id |-> request_id, registration_id |-> registration_id]

Unregister_unmarshal(msg) ==
    IF PyLen(msg) < 1 THEN Raise("IndexError", "list index out of range")
    ELSE IF Item(msg, 0) = IntV(Type.UNREGISTER.value)
    THEN IF PyLen(msg) < 3 THEN Raise("IndexError", "list index out of range")
         ELSE Unregister_init(Item(msg, 1), Item(msg, 2))
    ELSE Raise("ValueError", "Invalid message")

Unregister_marshal(self) ==
    ListV(<<IntV(self.type.value), self.request_id, self.registration_id>>)

-----------------------------------------------------------------------------
(* class Unregistered *)

Unregistered_init(request_id) ==
    [k |-> "Unregistered", type |-> Type.UNREGISTERED, request_id |-> request_id]

Unregistered_unmarshal(msg) ==
    IF PyLen(msg) < 1 THEN Raise("IndexError", "list index out of range")
    ELSE IF Item(msg, 0) = IntV(Type.UNREGISTERED.value)
    THEN IF PyLen(msg) < 2 THEN Raise("IndexError", "list index out of range")
         ELSE Unregistered_init(Item(msg, 1))
    ELSE Raise("ValueError", "Invalid message")

Unregistered_marshal(self) ==
    ListV(<<IntV(self.type.value), self.request_id>>)

-----------------------------------------------------------------------------
(* class Invocation *)

Invocation_init(request_id, registration_id, details, args, kwargs) ==
    [k |-> "Invocation", type |-> Type.INVOCATION, request_id |-> request_id, registration_id |-> registration_id, details |-> details,
     args |-> args, kwargs |-> kwargs]

Invocation_unmarshal(msg) ==
    IF PyLen(msg) < 1 THEN Raise("IndexError", "list index out of range")
    ELSE IF Item(msg, 0) = IntV(Type.INVOCATION.value)
    THEN IF PyLen(msg) > 5
         THEN Invocation_init(Item(msg, 1), Item(msg, 2), Item(msg, 3), Item(msg, 4), Item(msg, 5))
         ELSE IF PyLen(msg) > 4
         THEN Invocation_init(Item(msg, 1), Item(msg, 2), Item(msg, 3), Item(msg, 4), None)
         ELSE IF PyLen(msg) > 3
         THEN Invocation_init(Item(msg, 1), Item(msg, 2), Item(msg, 3), None, None)
         ELSE Raise("ValueError", "Invalid message")
    ELSE Raise("ValueError", "Invalid message")

Invocation_marshal(self) ==
    IF Truthy(self.kwargs)
    THEN ListV(<<IntV(self.type.value), self.request_id, self.registration_id, self.details, self.args, self.kwargs>>)
    ELSE IF Truthy(self.args)
    THEN ListV(<<IntV(self.type.value), self.request_id, self.registration_id, self.details, self.args>>)
    ELSE ListV(<<IntV(self.type.value), self.request_id, self.registration_id, self.details>>)

-----------------------------------------------------------------------------
(* class Yield *)

Yield_init(request_id, options, args, kwargs) ==
    [k |-> "Yield", type |-> Type.YIELD, request_id |-> request_id, options |-> options,
     args |-> args, kwargs |-> kwargs]

Yield_unmarshal(msg) ==
    IF PyLen(msg) < 1 THEN Raise("IndexError", "list index out of range")
    ELSE IF Item(msg, 0) = IntV(Type.YIELD.value)
    THEN IF PyLen(msg) > 4
         THEN Yield_init(Item(msg, 1), Item(msg, 2), Item(msg, 3), Item(msg, 4))
         ELSE IF PyLen(msg) > 3
         THEN Yield_init(Item(msg, 1), Item(msg, 2), Item(msg, 3), None)
         ELSE IF PyLen(msg) > 2
         THEN Yield_init(Item(msg, 1), Item(msg, 2), None, None)
         ELSE Raise("ValueError", "Invalid message")
    ELSE Raise("ValueError", "Invalid message")

Yield_marshal(self) ==
    IF Truthy(self.kwargs)
    THEN ListV(<<IntV(self.type.value), self.request_id, self.options, self.args, self.kwargs>>)
    ELSE IF Truthy(self.args)
    THEN ListV(<<IntV(self.type.value), self.request_id, self.options, self.args>>)
    ELSE ListV(<<IntV(self.type.value), self.request_id, self.options>>)

-----------------------------------------------------------------------------
(* The classes of message.py and the calls a caller can make on them *)

Classes ==
    {"Hello", "Welcome", "Abort", "Goodbye", "Error",
     "Publish", "Published", "Subscribe", "Subscribed", "Unsubscribe",
     "Unsubscribed", "Event", "Call", "Result", "Register",
     "Registered", "Unregister", "Unregistered", "Invocation", "Yield"}

\* X(**kw): the constructor of class c called with the keyword arguments kw
New(c, kw) ==
    CASE c = "Hello" -> Hello_init(kw.realm, kw.details)
      [] c = "Welcome" -> Welcome_init(kw.session, kw.details)
      [] c = "Abort" -> Abort_init(kw.details, kw.reason)
      [] c = "Goodbye" -> Goodbye_init(kw.details, kw.reason)
      [] c = "Error" -> Error_init(kw.request_type, kw.request_id, kw.details, kw.error, kw.args, kw.kwargs)
      [] c = "Publish" -> Publish_init(kw.request_id, kw.options, kw.topic, kw.args, kw.kwargs)
      [] c = "Published" -> Published_init(kw.request_id, kw.publication_id)
      [] c = "Subscribe" -> Subscribe_init(kw.request_id, kw.options, kw.topic)
      [] c = "Subscribed" -> Subscribed_init(kw.request_id, kw.subscription_id)
      [] c = "Unsubscribe" -> Unsubscribe_init(kw.request_id, kw.subscription_id)
      [] c = "Unsubscribed" -> Unsubscribed_init(kw.request_id)
      [] c = "Event" -> Event_init(kw.subscription_id, kw.publication_id, kw.details, kw.args, kw.kwargs)
      [] c = "Call" -> Call_init(kw.request_id, kw.options, kw.procedure, kw.args, kw.kwargs)
      [] c = "Result" -> Result_init(kw.request_id, kw.details, kw.args, kw.kwargs)
      [] c = "Register" -> Register_init(kw.request_id, kw.options, kw.procedure)
      [] c = "Registered" -> Registered_init(kw.request_id, kw.registration_id)
      [] c = "Unregister" -> Unregister_init(kw.request_id, kw.registration_id)
      [] c = "Unregistered" -> Unregistered_init(kw.request_id)
      [] c = "Invocation" -> Invocation_init(kw.request_id, kw.registration_id, kw.details, kw.args, kw.kwargs)
      [] c = "Yield" -> Yield_init(kw.request_id, kw.options, kw.args, kw.kwargs)

\* X.unmarshal(msg) for the class c
Unmarshal(c, msg) ==
    CASE c = "Hello" -> Hello_unmarshal(msg)
      [] c = "Welcome" -> Welcome_unmarshal(msg)
      [] c = "Abort" -> Abort_unmarshal(msg)
      [] c = "Goodbye" -> Goodbye_unmarshal(msg)
      [] c = "Error" -> Error_unmarshal(msg)
      [] c = "Publish" -> Publish_unmarshal(msg)
      [] c = "Published" -> Published_unmarshal(msg)
      [] c = "Subscribe" -> Subscribe_unmarshal(msg)
      [] c = "Subscribed" -> Subscribed_unmarshal(msg)
      [] c = "Unsubscribe" -> Unsubscribe_unmarshal(msg)
      [] c = "Unsubscribed" -> Unsubscribed_unmarshal(msg)
      [] c = "Event" -> Event_unmarshal(msg)
      [] c = "Call" -> Call_unmarshal(msg)
      [] c = "Result" -> Result_unmarshal(msg)
      [] c = "Register" -> Register_unmarshal(msg)
      [] c = "Registered" -> Registered_unmarshal(msg)
      [] c = "Unregister" -> Unregister_unmarshal(msg)
      [] c = "Unregistered" -> Unregistered_unmarshal(msg)
      [] c = "Invocation" -> Invocation_unmarshal(msg)
      [] c = "Yield" -> Yield_unmarshal(msg)

\* self.marshal(): the method of the class of self
Marshal(self) ==
    CASE self.k = "Hello" -> Hello_marshal(self)
      [] self.k = "Welcome" -> Welcome_marshal(self)
      [] self.k = "Abort" -> Abort_marshal(self)
      [] self.k = "Goodbye" -> Goodbye_marshal(self)
      [] self.k = "Error" -> Error_marshal(self)
      [] self.k = "Publish" -> Publish_marshal(self)
      [] self.k = "Published" -> Published_marshal(self)
      [] self.k = "Subscribe" -> Subscribe_marshal(self)
      [] self.k = "Subscribed" -> Subscribed_marshal(self)
      [] self.k = "Unsubscribe" -> Unsubscribe_marshal(self)
      [] self.k = "Unsubscribed" -> Unsubscribed_marshal(self)
      [] self.k = "Event" -> Event_marshal(self)
      [] self.k = "Call" -> Call_marshal(self)
      [] self.k = "Result" -> Result_marshal(self)
      [] self.k = "Register" -> Register_marshal(self)
      [] self.k = "Registered" -> Registered_marshal(self)
      [] self.k = "Unregister" -> Unregister_marshal(self)
      [] self.k = "Unregistered" -> Unregistered_marshal(self)
      [] self.k = "Invocation" -> Invocation_marshal(self)
      [] self.k = "Yield" -> Yield_marshal(self)

-----------------------------------------------------------------------------
(* The values callers and peers supply *)

Ids == {IntV(i) : i \in -1..MaxId}
Maps == {DictV({}), DictV({<<"x", IntV(1)>>})}
Uris == {StrV("com.myapp.topic1"), StrV("wamp.error.not_authorized")}
Realms == {StrV("realm1"), StrV("")}
Members == {Type[n] : n \in DOMAIN Type}

ArgsDom == {None} \cup {ListV([i \in 1..n |-> IntV(i)]) : n \in 0..MaxArgs}
KwargsDom == {None, DictV({}), DictV({<<"a", IntV(1)>>})}

\* the roles announced in a details dict: a list of names or a dict keyed by name
RolesDom ==
    { ListV(<<>>), DictV({}),
      ListV(<<StrV("caller")>>),
      ListV(<<StrV("publisher"), StrV("subscriber"), StrV("caller"), StrV("callee")>>),
      DictV({<<"callee", DictV({})>>}),
      ListV(<<StrV("broker")>>),
      ListV(<<StrV("broker"), StrV("dealer")>>),
      DictV({<<"broker", DictV({})>>}),
      ListV(<<StrV("a")>>),
      ListV(<<StrV("caller"), StrV("a")>>),
      ListV(<<StrV("a"), StrV("dealer")>>),
      DictV({<<"dealer", DictV({})>>, <<"a", DictV({})>>}) }

RoleDetails ==
    {DictV({}), DictV({<<"x", IntV(1)>>}), DictV({<<"roles", None>>})}
        \cup {DictV({<<"roles", r>>}) : r \in RolesDom}
        \cup {DictV({<<"roles", r>>, <<"x", IntV(1)>>}) :
                r \in {ListV(<<StrV("caller")>>), ListV(<<StrV("broker")>>)}}

\* the keyword arguments a caller passes to the constructor of class c
CtorArgs(c) ==
    CASE c = "Hello" -> [realm : Realms, details : RoleDetails]
      [] c = "Welcome" -> [session : Ids, details : RoleDetails]
      [] c \in {"Abort", "Goodbye"} -> [details : Maps, reason : Uris]
      [] c = "Error" -> [request_type : Members, request_id : Ids, details : Maps, error : Uris,
                         args : ArgsDom, kwargs : KwargsDom]
      [] c = "Publish" -> [request_id : Ids, options : Maps, topic : Uris,
                           args : ArgsDom, kwargs : KwargsDom]
      [] c = "Published" -> [request_id : Ids, publication_id : Ids]
      [] c = "Subscribe" -> [request_id : Ids, options : Maps, topic : Uris]
      [] c \in {"Subscribed", "Unsubscribe"} -> [request_id : Ids, subscription_id : Ids]
      [] c \in {"Unsubscribed", "Unregistered"} -> [request_id : Ids]
      [] c = "Event" -> [subscription_id : Ids, publication_id : Ids, details : Maps,
                         args : ArgsDom, kwargs : KwargsDom]
      [] c = "Call" -> [request_id : Ids, options : Maps, procedure : Uris,
                        args : ArgsDom, kwargs : KwargsDom]
      [] c = "Result" -> [request_id : Ids, details : Maps, args : ArgsDom, kwargs : KwargsDom]
      [] c = "Register" -> [request_id : Ids, options : Maps, procedure : Uris]
      [] c \in {"Registered", "Unregister"} -> [request_id : Ids, registration_id : Ids]
      [] c = "Invocation" -> [request_id : Ids, registration_id : Ids, details : Maps,
                              args : ArgsDom, kwargs : KwargsDom]
      [] c = "Yield" -> [request_id : Ids, options : Maps, args : ArgsDom, kwargs : KwargsDom]

\* The frames a peer can send.  A frame meant for class c carries c's tag or a tag
\* of no class, then any number of c's positions (none, some, all) and up to
\* MaxExtra elements more; each position holds a value of its field's kind, and
\* also a value the field must not hold where the code looks at it.
OtherTags == {IntV(4), IntV(99), StrV("1")}
Extras == {StrV("extra")}
WireRequestTypes == {IntV(Type.SUBSCRIBE.value), IntV(Type.YIELD.value), IntV(5)}

Positions(c) ==
    CASE c = "Hello" -> <<Realms, RoleDetails \cup {None}>>
      [] c = "Welcome" -> <<Ids, RoleDetails \cup {None}>>
      [] c \in {"Abort", "Goodbye"} -> <<Maps, Uris>>
      [] c = "Error" -> <<WireRequestTypes, Ids, Maps, Uris, ArgsDom, KwargsDom>>
      [] c \in {"Publish", "Call"} -> <<Ids, Maps, Uris, ArgsDom, KwargsDom>>
      [] c \in {"Subscribe", "Register"} -> <<Ids, Maps, Uris>>
      [] c \in {"Published", "Subscribed", "Unsubscribe", "Registered", "Unregister"} -> <<Ids, Ids>>
      [] c \in {"Unsubscribed", "Unregistered"} -> <<Ids>>
      [] c \in {"Event", "Invocation"} -> <<Ids, Ids, Maps, ArgsDom, KwargsDom>>
      [] c \in {"Result", "Yield"} -> <<Ids, Maps, ArgsDom, KwargsDom>>

RECURSIVE Prefixes(_)
\* the sequences s with Len(s) <= Len(doms) and s[i] \in doms[i]
Prefixes(doms) ==
    IF doms = <<>> THEN {<<>>}
    ELSE {<<>>} \cup {<<e>> \o r : e \in Head(doms), r \in Prefixes(Tail(doms))}

ClassTag ==
    [ Hello |-> Type.HELLO, Welcome |-> Type.WELCOME, Abort |-> Type.ABORT,
      Goodbye |-> Type.GOODBYE, Error |-> Type.ERROR, Publish |-> Type.PUBLISH,
      Published |-> Type.PUBLISHED, Subscribe |-> Type.SUBSCRIBE,
      Subscribed |-> Type.SUBSCRIBED, Unsubscribe |-> Type.UNSUBSCRIBE,
      Unsubscribed |-> Type.UNSUBSCRIBED, Event |-> Type.EVENT, Call |-> Type.CALL,
      Result |-> Type.RESULT, Register |-> Type.REGISTER, Registered |-> Type.REGISTERED,
      Unregister |-> Type.UNREGISTER, Unregistered |-> Type.UNREGISTERED,
      Invocation |-> Type.INVOCATION, Yield |-> Type.YIELD ]

FramesFor(c) ==
    {ListV(<<t>> \o b) :
        t \in {IntV(ClassTag[c].value)} \cup OtherTags,
        b \in Prefixes(Positions(c) \o [i \in 1..MaxExtra |-> Extras])}

WireForms == {ListV(<<>>)} \cup UNION {FramesFor(c) : c \in Classes}

-----------------------------------------------------------------------------
(* The caller: it constructs a message, marshals it and decodes the result, or *)
(* it decodes a frame received from a peer.                                    *)

\* the websockets that can connect, and a websocket whose handler has not started
Websockets == 1..MaxConnections
IdleHandler == [pc |-> "none", message |-> None]
\* no Session method has been called
NoCall == [session |-> 0, method |-> ""]

\* the callers of the concurrent use, and a caller that is in no call
Callers == 1..NCallers
IdleCaller ==
    [pc |-> "idle", op |-> "", cls |-> "", kw |-> None, branch |-> "", alone |-> None, ret |-> None]

Init ==
    /\ pc = "idle"
    /\ cls = ""
    /\ given = None
    /\ obj = None
    /\ wire = None
    /\ ret = None
    /\ callers = [t \in Callers |-> IdleCaller]
    /\ shared = [msg |-> None, wire |-> None]
    /\ connections = {}
    /\ sessions = {}
    /\ handlers = [ws \in Websockets |-> IdleHandler]
    /\ lastCall = NoCall

\* m = X(**kw)
Construct ==
    /\ pc = "idle"
    /\ \E c \in Classes : \E kw \in CtorArgs(c) :
        /\ cls' = c
        /\ given' = kw
        /\ ret' = New(c, kw)
        /\ obj' = IF IsRaise(New(c, kw)) THEN None ELSE New(c, kw)
        /\ pc' = IF IsRaise(New(c, kw)) THEN "rejected" ELSE "constructed"
    /\ wire' = None
    /\ UNCHANGED <<callers, shared, routerVars>>

\* marshal stores the trimmed tail in the message: an empty kwargs becomes None
DoMarshal_trimsself ==
    /\ pc \in {"constructed", "marshalled"}
    /\ ret' = Marshal(obj)
    /\ wire' = IF IsRaise(Marshal(obj)) THEN None ELSE Marshal(obj)
    /\ pc' = "marshalled"
    /\ obj' = IF "kwargs" \in DOMAIN obj /\ ~Truthy(obj.kwargs)
              THEN [obj EXCEPT !.kwargs = None]
              ELSE obj
    /\ UNCHANGED <<cls, given, callers, shared, routerVars>>

\* w = m.marshal(), on a message just constructed or marshalled before
DoMarshal ==
    /\ pc \in {"constructed", "marshalled"}
    /\ ret' = Marshal(obj)
    /\ wire' = IF IsRaise(Marshal(obj)) THEN None ELSE Marshal(obj)
    /\ pc' = "marshalled"
    /\ UNCHANGED <<cls, given, obj, callers, shared, routerVars>>

\* the transport hands over a frame
Receive ==
    /\ pc = "idle"
    /\ \E w \in WireForms : wire' = w
    /\ pc' = "received"
    /\ UNCHANGED <<cls, given, obj, ret, callers, shared, routerVars>>

\* X.unmarshal(w)
DoUnmarshal ==
    /\ pc \in {"marshalled", "received"}
    /\ wire # None
    /\ \E c \in Classes :
        /\ cls' = c
        /\ ret' = Unmarshal(c, wire)
    /\ pc' = "decoded"
    /\ UNCHANGED <<given, obj, wire, callers, shared, routerVars>>

\* w2 = m2.marshal(), on the message that unmarshal returned
DoRemarshal ==
    /\ pc = "decoded"
    /\ ret.k \in Classes
    /\ ret' = Marshal(ret)
    /\ pc' = "remarshalled"
    /\ UNCHANGED <<cls, given, obj, wire, callers, shared, routerVars>>

\* the caller drops what it holds
Drop ==
    /\ pc # "idle"
    /\ pc' = "idle"
    /\ cls' = ""
    /\ given' = None
    /\ obj' = None
    /\ wire' = None
    /\ ret' = None
    /\ UNCHANGED <<callers, shared, routerVars>>

Next == Construct \/ DoMarshal \/ Receive \/ DoUnmarshal \/ DoRemarshal \/ Drop

Spec == Init /\ [][Next]_vars

-----------------------------------------------------------------------------
(* Concurrent use.  NCallers threads hold one message and one wire form and  *)
(* call the constructor, marshal and unmarshal on them; a thread can be      *)
(* preempted between the statements of a method, so a call is a sequence of  *)
(* steps: marshal tests self.kwargs, then self.args, then builds the list of *)
(* the branch it took; unmarshal compares msg[0] with the tag, then reads    *)
(* the fields and constructs.  A caller records, when it issues a call, what *)
(* the call returns when run alone on the inputs as they are then.           *)

\* the scalar arguments of the shared message; its details, args and kwargs vary
Pinned == {IntV(0), DictV({}), StrV("com.myapp.topic1"), StrV("realm1"), Type.CALL}

SharedArgs(c) ==
    {kw \in CtorArgs(c) :
        \A f \in DOMAIN kw : f \in {"details", "args", "kwargs"} \/ kw[f] \in Pinned}

\* the messages the callers can hold: every class, every shape of the tail
SharedMessages ==
    {m \in UNION {{New(c, kw) : kw \in SharedArgs(c)} : c \in Classes} : ~IsRaise(m)}

\* the wire form the callers hold: that of the message, whole or cut short by one
SharedInputs ==
    UNION {{[msg |-> m, wire |-> Marshal(m)],
            [msg |-> m, wire |-> ListV(SubSeq(Marshal(m).v, 1, Len(Marshal(m).v) - 1))]} :
           m \in SharedMessages}

\* the attributes of a message as keyword arguments of its constructor
FieldsOf(m) == [f \in DOMAIN m \ {"k", "type"} |-> m[f]]

\* a constructor call: the class of the shared message on its attributes,
\* or Hello on a details dict without roles
CtorCalls(m) ==
    {[cls |-> m.k, kw |-> FieldsOf(m)],
     [cls |-> "Hello", kw |-> [realm |-> StrV("realm1"), details |-> DictV({})]]}

\* the classes whose unmarshal a caller applies to the shared wire form
UnmarshalChoices(m) == {m.k, "Error", "Goodbye"}

\* the return statement of the branch that marshal took
MarshalBranch(self, branch) ==
    IF "kwargs" \notin DOMAIN self THEN Marshal(self)
    ELSE LET required == Marshal([self EXCEPT !.args = None, !.kwargs = None]).v
         IN  CASE branch = "kwargs" -> ListV(required \o <<self.args, self.kwargs>>)
               [] branch = "args" -> ListV(required \o <<self.args>>)
               [] OTHER -> ListV(required)

InitConcurrent ==
    /\ pc = "idle"
    /\ cls = ""
    /\ given = None
    /\ obj = None
    /\ wire = None
    /\ ret = None
    /\ callers = [t \in Callers |-> IdleCaller]
    /\ shared \in SharedInputs
    /\ connections = {}
    /\ sessions = {}
    /\ handlers = [ws \in Websockets |-> IdleHandler]
    /\ lastCall = NoCall

\* X(**kw) is called
CallConstruct(t) ==
    /\ callers[t].pc = "idle"
    /\ \E call \in CtorCalls(shared.msg) :
        callers' = [callers EXCEPT ![t] =
            [IdleCaller EXCEPT !.pc = "init", !.op = "construct", !.cls = call.cls,
                               !.kw = call.kw, !.alone = New(call.cls, call.kw)]]
    /\ UNCHANGED <<pc, cls, given, obj, wire, ret, shared, routerVars>>

\* __init__ runs and returns the message or raises
RunConstruct(t) ==
    /\ callers[t].pc = "init"
    /\ callers' = [callers EXCEPT ![t].pc = "returned",
                                  ![t].ret = New(callers[t].cls, callers[t].kw)]
    /\ UNCHANGED <<pc, cls, given, obj, wire, ret, shared, routerVars>>

\* m.marshal() is called on the shared message
CallMarshal(t) ==
    /\ callers[t].pc = "idle"
    /\ callers' = [callers EXCEPT ![t] =
            [IdleCaller EXCEPT !.pc = IF "kwargs" \in DOMAIN shared.msg
                                      THEN "test_kwargs" ELSE "return",
                               !.op = "marshal", !.cls = shared.msg.k,
                               !.alone = Marshal(shared.msg)]]
    /\ UNCHANGED <<pc, cls, given, obj, wire, ret, shared, routerVars>>

\* if self.kwargs:
MarshalTestKwargs(t) ==
    /\ callers[t].pc = "test_kwargs"
    /\ callers' = IF Truthy(shared.msg.kwargs)
                  THEN [callers EXCEPT ![t].pc = "return", ![t].branch = "kwargs"]
                  ELSE [callers EXCEPT ![t].pc = "test_args"]
    /\ UNCHANGED <<pc, cls, given, obj, wire, ret, shared, routerVars>>

\* elif self.args:
MarshalTestArgs(t) ==
    /\ callers[t].pc = "test_args"
    /\ callers' = [callers EXCEPT ![t].pc = "return",
                                  ![t].branch = IF Truthy(shared.msg.args) THEN "args" ELSE "else"]
    /\ UNCHANGED <<pc, cls, given, obj, wire, ret, shared, routerVars>>

\* marshal hands the kwargs over: it returns the list and clears self.kwargs
MarshalReturn_consumes(t) ==
    /\ callers[t].pc = "return"
    /\ callers' = [callers EXCEPT ![t].pc = "returned",
                                  ![t].ret = MarshalBranch(shared.msg, callers[t].branch)]
    /\ shared' = IF "kwargs" \in DOMAIN shared.msg
                 THEN [shared EXCEPT !.msg.kwargs = None]
                 ELSE shared
    /\ UNCHANGED <<pc, cls, given, obj, wire, ret, routerVars>>

\* return [self.type.value, ...]
MarshalReturn(t) ==
    /\ callers[t].pc = "return"
    /\ callers' = [callers EXCEPT ![t].pc = "returned",
                                  ![t].ret = MarshalBranch(shared.msg, callers[t].branch)]
    /\ UNCHANGED <<pc, cls, given, obj, wire, ret, shared, routerVars>>

\* X.unmarshal(w) is called on the shared wire form
CallUnmarshal(t) ==
    /\ callers[t].pc = "idle"
    /\ \E c \in UnmarshalChoices(shared.msg) :
        callers' = [callers EXCEPT ![t] =
            [IdleCaller EXCEPT !.pc = "test_tag", !.op = "unmarshal", !.cls = c,
                               !.alone = Unmarshal(c, shared.wire)]]
    /\ UNCHANGED <<pc, cls, given, obj, wire, ret, shared, routerVars>>

\* if msg[0] != Type.X: raise (Error: if msg[0] == Type.ERROR, else fall off the end)
UnmarshalTestTag(t) ==
    /\ callers[t].pc = "test_tag"
    /\ callers' = IF PyLen(shared.wire) = 0
                     \/ Item(shared.wire, 0) # IntV(ClassTag[callers[t].cls].value)
                  THEN [callers EXCEPT ![t].pc = "returned",
                                       ![t].ret = Unmarshal(callers[t].cls, shared.wire)]
                  ELSE [callers EXCEPT ![t].pc = "read_fields"]
    /\ UNCHANGED <<pc, cls, given, obj, wire, ret, shared, routerVars>>

\* the positions are read and return cls(...) constructs the message
UnmarshalReadFields(t) ==
    /\ callers[t].pc = "read_fields"
    /\ callers' = [callers EXCEPT ![t].pc = "returned",
                                  ![t].ret = Unmarshal(callers[t].cls, shared.wire)]
    /\ UNCHANGED <<pc, cls, given, obj, wire, ret, shared, routerVars>>

\* the caller takes the outcome and is free for its next call
Return(t) ==
    /\ callers[t].pc = "returned"
    /\ callers' = [callers EXCEPT ![t] = IdleCaller]
    /\ UNCHANGED <<pc, cls, given, obj, wire, ret, shared, routerVars>>

NextConcurrent ==
    \E t \in Callers :
        \/ CallConstruct(t)
        \/ RunConstruct(t)
        \/ CallMarshal(t)
        \/ MarshalTestKwargs(t)
        \/ MarshalTestArgs(t)
        \/ MarshalReturn(t)
        \/ CallUnmarshal(t)
        \/ UnmarshalTestTag(t)
        \/ UnmarshalReadFields(t)
        \/ Return(t)

SpecConcurrent == InitConcurrent /\ [][NextConcurrent]_vars

-----------------------------------------------------------------------------
(* The router (wouter/router/router.py) and the session stub                 *)
(* (wouter/router/session.py).  The handlers are coroutines of one event     *)
(* loop: a handler runs without interruption from one await to the next, so  *)
(* a step is what the code does between two awaits.  The only await is       *)
(* websocket.recv(); it returns a message, raises when the connection is     *)
(* lost, or raises CancelledError when the handler's task is cancelled.      *)

codecVars == <<pc, cls, given, obj, wire, ret, callers, shared>>

State ==
    [ CLOSED        |-> "closed",
      ESTABLISHING  |-> "establishing",
      FAILED        |-> "failed",
      ESTABLISHED   |-> "established",
      CHALLENGING   |-> "challenging",
      CLOSING       |-> "closing",
      SHUTTING_DOWN |-> "shutting-down" ]

\* Session(websocket): the websocket is not stored.  id stands for the identity
\* of the new object (a set keeps two Sessions apart by identity), here the
\* number of the connection whose handler made it.
Session_init(websocket) ==
    [k |-> "Session", id |-> websocket, state |-> State.CLOSED, realm |-> "",
     publications |-> <<>>, subscriptions |-> <<>>, registrations |-> <<>>,
     requests |-> <<>>, roles |-> <<>>]

\* hello moving the session on to ESTABLISHING
Session_hello_establishing(self) == [self EXCEPT !.state = State.ESTABLISHING]

Session_hello(self) == self
Session_welcome(self) == self
Session_abort(self) == self
Session_goodbye(self) == self
Session_error(self) == self

Methods == {"hello", "welcome", "abort", "goodbye", "error"}

SessionMethod(self, m) ==
    CASE m = "hello" -> Session_hello(self)
      [] m = "welcome" -> Session_welcome(self)
      [] m = "abort" -> Session_abort(self)
      [] m = "goodbye" -> Session_goodbye(self)
      [] m = "error" -> Session_error(self)

\* what websocket.recv() can return
RecvMessages == {StrV("[1, \"realm1\", {}]"), StrV("x")}

\* connection_handler up to its first await: register, make the Session, wait in recv()
Start(ws) ==
    /\ handlers[ws].pc = "none"
    /\ connections' = connections \cup {ws}
    /\ sessions' = sessions \cup {Session_init(ws)}
    /\ handlers' = [handlers EXCEPT ![ws].pc = "receiving"]
    /\ UNCHANGED <<lastCall, codecVars>>

\* recv() returns a message; it is printed and the loop waits again
Recv(ws) ==
    /\ handlers[ws].pc = "receiving"
    /\ \E m \in RecvMessages : handlers' = [handlers EXCEPT ![ws].message = m]
    /\ UNCHANGED <<connections, sessions, lastCall, codecVars>>

\* the handler ends with exception how: the finally clause runs
\* connections.remove(websocket), which raises KeyError when it is not there
Unregister(ws, how) ==
    /\ handlers[ws].pc = "receiving"
    /\ connections' = connections \ {ws}
    /\ handlers' = [handlers EXCEPT ![ws] =
                      [pc |-> IF ws \in connections THEN how ELSE "KeyError", message |-> None]]
    /\ UNCHANGED <<sessions, lastCall, codecVars>>

\* a handler that unregisters only when recv() fails: a cancelled one stays registered
Cancel_keepsregistered(ws) ==
    /\ handlers[ws].pc = "receiving"
    /\ handlers' = [handlers EXCEPT ![ws] = [pc |-> "CancelledError", message |-> None]]
    /\ UNCHANGED <<connections, sessions, lastCall, codecVars>>

\* a handler that also forgets its Session when recv() fails
RecvFails_dropssession(ws) ==
    /\ handlers[ws].pc = "receiving"
    /\ connections' = connections \ {ws}
    /\ sessions' = {s \in sessions : s.id # ws}
    /\ handlers' = [handlers EXCEPT ![ws] = [pc |-> "ConnectionClosed", message |-> None]]
    /\ UNCHANGED <<lastCall, codecVars>>

\* recv() raises ConnectionClosed
RecvFails(ws) == Unregister(ws, "ConnectionClosed")

\* the handler's task is cancelled while it waits in recv()
Cancel(ws) == Unregister(ws, "CancelledError")

\* a method of a Session of the registry is called
SessionCall ==
    /\ \E s \in sessions : \E m \in Methods :
        /\ sessions' = (sessions \ {s}) \cup {SessionMethod(s, m)}
        /\ lastCall' = [session |-> s.id, method |-> m]
    /\ UNCHANGED <<connections, handlers, codecVars>>

NextRouter ==
    \/ \E ws \in Websockets : Start(ws)
    \/ \E ws \in Websockets : Recv(ws)
    \/ \E ws \in Websockets : RecvFails(ws)
    \/ \E ws \in Websockets : Cancel(ws)
    \/ SessionCall

SpecRouter == Init /\ [][NextRouter]_vars

-----------------------------------------------------------------------------
(* The variant table of the specification: each variant's tag and its required *)
(* fields in wire order (args and kwargs, where a variant has them, follow).   *)

Variants ==
    [ Hello        |-> [tag |-> 1,  fields |-> <<"realm", "details">>],
      Welcome      |-> [tag |-> 2,  fields |-> <<"session", "details">>],
      Abort        |-> [tag |-> 3,  fields |-> <<"details", "reason">>],
      Goodbye      |-> [tag |-> 6,  fields |-> <<"details", "reason">>],
      Error        |-> [tag |-> 8,  fields |-> <<"request_type", "request_id", "details", "error">>],
      Publish      |-> [tag |-> 16, fields |-> <<"request_id", "options", "topic">>],
      Published    |-> [tag |-> 17, fields |-> <<"request_id", "publication_id">>],
      Subscribe    |-> [tag |-> 32, fields |-> <<"request_id", "options", "topic">>],
      Subscribed   |-> [tag |-> 33, fields |-> <<"request_id", "subscription_id">>],
      Unsubscribe  |-> [tag |-> 34, fields |-> <<"request_id", "subscription_id">>],
      Unsubscribed |-> [tag |-> 35, fields |-> <<"request_id">>],
      Event        |-> [tag |-> 36, fields |-> <<"subscription_id", "publication_id", "details">>],
      Call         |-> [tag |-> 48, fields |-> <<"request_id", "options", "procedure">>],
      Result       |-> [tag |-> 50, fields |-> <<"request_id", "details">>],
      Register     |-> [tag |-> 64, fields |-> <<"request_id", "options", "procedure">>],
      Registered   |-> [tag |-> 65, fields |-> <<"request_id", "registration_id">>],
      Unregister   |-> [tag |-> 66, fields |-> <<"request_id", "registration_id">>],
      Unregistered |-> [tag |-> 67, fields |-> <<"request_id">>],
      Invocation   |-> [tag |-> 68, fields |-> <<"request_id", "registration_id", "details">>],
      Yield        |-> [tag |-> 70, fields |-> <<"request_id", "options">>] ]

\* the variants with optional args and kwargs
TailTrim == {"Error", "Publish", "Event", "Call", "Result", "Invocation", "Yield"}

\* the number of required wire elements of a variant, the tag included
Required(c) == Len(Variants[c].fields) + 1

\* a collection that is there and holds something
NonEmpty(x) == (x.k = "list" /\ Len(x.v) > 0) \/ (x.k = "dict" /\ Cardinality(x.v) > 0)
\* a collection that is there and holds nothing
Empty(x) == (x.k = "list" /\ Len(x.v) = 0) \/ (x.k = "dict" /\ Cardinality(x.v) = 0)

\* a call's outcome is a message of variant c
IsMessageOf(x, c) == x.k = c /\ c \in DOMAIN Variants

\* the caller has decoded what marshal made of the message obj it constructed
RoundTripDone == pc = "decoded" /\ obj # None /\ cls = obj.k

-----------------------------------------------------------------------------
\* C1: round trip.  Decoding the wire form that marshal made of a constructed
\* message v, with v's own variant, returns a message of that variant whose
\* every field equals v's, except that an args or kwargs that was empty in v
\* may come back absent.
RoundTrip ==
    RoundTripDone =>
        /\ IsMessageOf(ret, obj.k)
        /\ ret.type = obj.type
        /\ \A i \in 1..Len(Variants[obj.k].fields) :
              ret[Variants[obj.k].fields[i]] = obj[Variants[obj.k].fields[i]]
        /\ obj.k \in TailTrim =>
              /\ ret.args = obj.args \/ (Empty(obj.args) /\ ret.args = None)
              /\ ret.kwargs = obj.kwargs \/ (Empty(obj.kwargs) /\ ret.kwargs = None)

\* a Publish with args and an empty kwargs came back with its args and no kwargs
RoundTripWitness ==
    /\ RoundTripDone
    /\ obj.k = "Publish"
    /\ NonEmpty(obj.args) /\ Empty(obj.kwargs)
    /\ ret.k = "Publish" /\ ret.args = obj.args /\ ret.kwargs = None

\* C2: wrong-tag rejection.  V.unmarshal of a wire form whose element 0 is not
\* V's tag fails with a decode error: it returns neither a message nor nothing.
WrongTagRejected ==
    (pc = "decoded" /\ PyLen(wire) > 0 /\ Item(wire, 0) # IntV(Variants[cls].tag)) =>
        IsRaise(ret) /\ ret.exc = "ValueError"

\* C3: tail-trim rule.  With n the required elements of a tail-trim variant,
\* marshal returns n+2 elements ending in args, kwargs when kwargs is non-empty,
\* otherwise n+1 elements ending in args when args is non-empty, otherwise n.
TailTrimRule ==
    (pc = "marshalled" /\ obj.k \in TailTrim) =>
        /\ ret.k = "list"
        /\ IF NonEmpty(obj.kwargs)
           THEN /\ PyLen(ret) = Required(obj.k) + 2
                /\ Item(ret, Required(obj.k)) = obj.args
                /\ Item(ret, Required(obj.k) + 1) = obj.kwargs
           ELSE IF NonEmpty(obj.args)
           THEN /\ PyLen(ret) = Required(obj.k) + 1
                /\ Item(ret, Required(obj.k)) = obj.args
           ELSE PyLen(ret) = Required(obj.k)

\* a Result with an empty args and a non-empty kwargs was marshalled to 5 elements
TailTrimWitness ==
    /\ pc = "marshalled"
    /\ obj.k = "Result"
    /\ Empty(obj.args) /\ NonEmpty(obj.kwargs)
    /\ PyLen(ret) = Required("Result") + 2

-----------------------------------------------------------------------------
\* the lengths of the wire forms of a variant
ValidLengths(c) ==
    IF c \in TailTrim THEN {Required(c), Required(c) + 1, Required(c) + 2} ELSE {Required(c)}

\* the wire form the caller decoded carries the tag of the variant it decoded it with
DecodedOwnTag == pc = "decoded" /\ PyLen(wire) > 0 /\ Item(wire, 0) = IntV(Variants[cls].tag)

\* the role sets of the specification
HelloRoles == {StrV("publisher"), StrV("subscriber"), StrV("caller"), StrV("callee")}
WelcomeRoles == {StrV("broker"), StrV("dealer")}

\* the roles a roles entry names: the elements of a sequence, the keys of a map
RoleNames(r) ==
    IF r.k = "list" THEN {r.v[i] : i \in 1..Len(r.v)} ELSE {StrV(it[1]) : it \in r.v}

\* details is a map with a non-empty roles entry that names only allowed roles
RolesAccepted(details, allowed) ==
    /\ details.k = "dict"
    /\ \E it \in details.v :
          it[1] = "roles" /\ NonEmpty(it[2]) /\ RoleNames(it[2]) \subseteq allowed

\* ret is a message of variant c whose fields are the elements of w, position by position
FieldsByPosition(c, w) ==
    /\ IsMessageOf(ret, c)
    /\ \A i \in 1..Len(Variants[c].fields) : ret[Variants[c].fields[i]] = Item(w, i)

\* args and kwargs of ret are the elements of w after the required ones, absent where w ends
TailByLength(c, w) ==
    c \in TailTrim =>
        /\ ret.args = IF PyLen(w) > Required(c) THEN Item(w, Required(c)) ELSE None
        /\ ret.kwargs = IF PyLen(w) > Required(c) + 1 THEN Item(w, Required(c) + 1) ELSE None

\* C4 as stated: positional decode.  Every wire form with the variant's tag and
\* one of its valid lengths decodes to a message whose k-th field equals w[k],
\* with args and kwargs taken from the positions after the required ones.
PositionalDecodeAsStated ==
    (DecodedOwnTag /\ PyLen(wire) \in ValidLengths(cls)) =>
        FieldsByPosition(cls, wire) /\ TailByLength(cls, wire)

\* C4 as amended: positional decode, where Hello and Welcome decode only a
\* details that passes their role validation and fail otherwise, and Error
\* decodes element 1 to the Type member with that code and fails when no member
\* has it.
PositionalDecode ==
    (DecodedOwnTag /\ PyLen(wire) \in ValidLengths(cls)) =>
        IF cls = "Hello" /\ ~RolesAccepted(Item(wire, 2), HelloRoles) THEN IsRaise(ret)
        ELSE IF cls = "Welcome" /\ ~RolesAccepted(Item(wire, 2), WelcomeRoles) THEN IsRaise(ret)
        ELSE IF cls = "Error"
        THEN IF \E n \in DOMAIN Variants : IntV(Variants[n].tag) = Item(wire, 1)
             THEN /\ IsMessageOf(ret, cls)
                  /\ ret.request_type.k = "Type"
                  /\ IntV(ret.request_type.value) = Item(wire, 1)
                  /\ \A i \in 2..Len(Variants[cls].fields) :
                        ret[Variants[cls].fields[i]] = Item(wire, i)
                  /\ TailByLength(cls, wire)
             ELSE IsRaise(ret)
        ELSE FieldsByPosition(cls, wire) /\ TailByLength(cls, wire)

\* a received Error frame of 6 elements with an empty args decoded to an Error
\* that keeps the empty args and has no kwargs
PositionalDecodeWitness ==
    /\ DecodedOwnTag
    /\ obj = None
    /\ cls = "Error"
    /\ PyLen(wire) = 6
    /\ Item(wire, 5) = ListV(<<>>)
    /\ ret.k = "Error"
    /\ ret.args = ListV(<<>>)
    /\ ret.kwargs = None

\* C5: Hello role validation.  Constructing Hello succeeds exactly when details
\* has a non-empty roles entry naming only publisher, subscriber, caller,
\* callee; otherwise it fails with a construction error and yields no message;
\* on success realm and details are stored as given.
HelloRoleValidation ==
    (pc \in {"constructed", "rejected"} /\ cls = "Hello") =>
        IF RolesAccepted(given.details, HelloRoles)
        THEN /\ IsMessageOf(ret, "Hello")
             /\ obj = ret
             /\ ret.details = given.details
             /\ ret.realm = given.realm
        ELSE /\ IsRaise(ret)
             /\ ret.exc = "ValueError"
             /\ obj = None

\* a Hello whose roles name caller and a role outside the set was rejected
HelloRoleWitness ==
    /\ pc = "rejected"
    /\ cls = "Hello"
    /\ Get(given.details, "roles") = ListV(<<StrV("caller"), StrV("a")>>)
    /\ IsRaise(ret)

\* C6: Welcome role validation.  Constructing Welcome succeeds exactly when
\* details has a non-empty roles entry naming only broker, dealer (the elements
\* of a sequence, the keys of a map); otherwise it fails with a construction
\* error; on success session and details are stored as given.
WelcomeRoleValidation ==
    (pc \in {"constructed", "rejected"} /\ cls = "Welcome") =>
        IF RolesAccepted(given.details, WelcomeRoles)
        THEN /\ IsMessageOf(ret, "Welcome")
             /\ obj = ret
             /\ ret.details = given.details
             /\ ret.session = given.session
        ELSE /\ IsRaise(ret)
             /\ ret.exc = "ValueError"
             /\ obj = None

\* a Welcome whose roles are a map keyed by broker was constructed with its details kept
WelcomeRoleWitness ==
    /\ pc = "constructed"
    /\ cls = "Welcome"
    /\ Get(given.details, "roles") = DictV({<<"broker", DictV({})>>})
    /\ ret.k = "Welcome"
    /\ ret.details = given.details

\* C7: tag integrity.  Element 0 of marshal(v) is the integer code of v's
\* variant, which is the value of v.type, whatever the other fields hold.
TagIntegrity ==
    pc = "marshalled" =>
        /\ ret.k = "list"
        /\ PyLen(ret) > 0
        /\ Item(ret, 0) = IntV(Variants[obj.k].tag)
        /\ Item(ret, 0) = IntV(obj.type.value)

\* a Yield with kwargs was marshalled to a wire form that starts with 70
TagIntegrityWitness ==
    /\ pc = "marshalled"
    /\ obj.k = "Yield"
    /\ NonEmpty(obj.kwargs)
    /\ PyLen(ret) = 5
    /\ Item(ret, 0) = IntV(70)

\* C8: missing required field.  unmarshal of a wire form with the variant's tag
\* and fewer elements than the variant requires raises; it never returns.
MissingFieldRejected ==
    (DecodedOwnTag /\ PyLen(wire) < Required(cls)) => IsRaise(ret)

\* the variants with exactly one valid wire-form length
FixedArityVariants ==
    {"Published", "Subscribed", "Unsubscribed", "Registered", "Unregistered", "Unregister",
     "Subscribe", "Register"}

\* C9: fixed arity.  For a fixed-arity variant unmarshal of a wire form with the
\* variant's tag succeeds only at the variant's one length and fails for every
\* shorter and every longer wire form.
FixedArity ==
    (DecodedOwnTag /\ cls \in FixedArityVariants) =>
        IF PyLen(wire) = Required(cls) THEN IsMessageOf(ret, cls) ELSE IsRaise(ret)

\* C10: out-of-set length.  For a tail-trim variant with n required elements
\* unmarshal of a wire form with the variant's tag and more than n+2 elements
\* is a decode error; no message is built from the first n+2 elements.
OutOfSetLengthRejected ==
    (DecodedOwnTag /\ cls \in TailTrim /\ PyLen(wire) > Required(cls) + 2) => IsRaise(ret)

-----------------------------------------------------------------------------
\* the one wire-form length of a variant without args and kwargs
FixedLength(c) ==
    IF c \in {"Subscribe", "Register"} THEN 4
    ELSE IF c \in {"Unsubscribed", "Unregistered"} THEN 2
    ELSE 3

\* C11 as stated: wire layout.  Elements 1..n-1 of marshal(v) are the required
\* fields in the wire order of the variant table, each equal to the value given
\* at construction, and a variant without args/kwargs marshals to its one fixed
\* length.
WireLayoutAsStated ==
    pc = "marshalled" =>
        /\ ret.k = "list"
        /\ PyLen(ret) >= Required(obj.k)
        /\ \A i \in 1..Len(Variants[obj.k].fields) :
              Item(ret, i) = given[Variants[obj.k].fields[i]]
        /\ obj.k \notin TailTrim => PyLen(ret) = FixedLength(obj.k)

\* C11 as amended: wire layout, where Error's request_type is emitted as the
\* integer code of the Type member given at construction and every other
\* required field as the value given.
WireLayout ==
    pc = "marshalled" =>
        /\ ret.k = "list"
        /\ PyLen(ret) >= Required(obj.k)
        /\ \A i \in 1..Len(Variants[obj.k].fields) :
              Item(ret, i) =
                  IF Variants[obj.k].fields[i] = "request_type"
                  THEN IntV(given.request_type.value)
                  ELSE given[Variants[obj.k].fields[i]]
        /\ obj.k \notin TailTrim => PyLen(ret) = FixedLength(obj.k)

\* an Abort was marshalled to [3, details, reason] with the details and the
\* reason it was constructed with
WireLayoutWitness ==
    /\ pc = "marshalled"
    /\ obj.k = "Abort"
    /\ ret = ListV(<<IntV(3), given.details, given.reason>>)
    /\ given.details # DictV({})

-----------------------------------------------------------------------------
\* C12: Error request type.  Error.marshal emits request_type as its integer
\* code at element 1, and Error.unmarshal turns element 1 back into the Type
\* member with that code: an Error built with request_type = t decodes again to
\* request_type = t, for every Type t.
ErrorRequestType ==
    /\ (pc = "marshalled" /\ obj.k = "Error") =>
          /\ given.request_type.k = "Type"
          /\ Item(ret, 1) = IntV(given.request_type.value)
    /\ (DecodedOwnTag /\ cls = "Error" /\ ret.k = "Error") =>
          /\ ret.request_type.k = "Type"
          /\ IntV(ret.request_type.value) = Item(wire, 1)
    /\ (RoundTripDone /\ obj.k = "Error") =>
          /\ ret.k = "Error"
          /\ ret.request_type = given.request_type

\* an Error built with request_type YIELD was marshalled with 70 at element 1
\* and decoded to an Error whose request_type is the member YIELD again
ErrorRequestTypeWitness ==
    /\ RoundTripDone
    /\ obj.k = "Error"
    /\ given.request_type = [k |-> "Type", name |-> "YIELD", value |-> 70]
    /\ Item(wire, 1) = IntV(70)
    /\ ret.k = "Error"
    /\ ret.request_type = given.request_type

-----------------------------------------------------------------------------
\* C13: no validation outside Hello and Welcome.  Constructing any other
\* variant succeeds for every combination of field values (negative or repeated
\* identifiers, the empty map, any args/kwargs) and stores each field as given.
NoValidationElsewhere ==
    (pc \in {"constructed", "rejected"} /\ cls \notin {"Hello", "Welcome"}) =>
        /\ pc = "constructed"
        /\ IsMessageOf(ret, cls)
        /\ obj = ret
        /\ \A f \in DOMAIN given : ret[f] = given[f]

\* an Error with a negative request_id, an empty details, an empty args and an
\* empty kwargs was constructed and holds them as given
NoValidationWitness ==
    /\ pc = "constructed"
    /\ cls = "Error"
    /\ given.request_id = IntV(-1)
    /\ given.details = DictV({})
    /\ given.args = ListV(<<>>)
    /\ given.kwargs = DictV({})
    /\ ret.k = "Error"
    /\ ret.request_id = IntV(-1)
    /\ ret.args = ListV(<<>>)
    /\ ret.kwargs = DictV({})

-----------------------------------------------------------------------------
\* the codes of the specification's tag list
TagCodes == {1, 2, 3, 6, 8, 16, 17, 32, 33, 34, 35, 36, 48, 50, 64, 65, 66, 67, 68, 70}

\* C14: tag table.  The mapping from Type names to codes is injective, its
\* codes are exactly the codes of the tag list, every class has one of them as
\* its tag, and no unmarshal returns a message for a wire form whose tag is a
\* code outside the list (a gap code such as 4).
TagTable ==
    /\ \A a, b \in DOMAIN Type : Type[a].value = Type[b].value => a = b
    /\ {Type[n].value : n \in DOMAIN Type} = TagCodes
    /\ {ClassTag[c].value : c \in Classes} = TagCodes
    /\ (pc = "decoded" /\ PyLen(wire) > 0 /\ Item(wire, 0).k = "int"
            /\ Item(wire, 0).v \notin TagCodes) =>
          ret.k \notin Classes

\* a frame of three elements tagged with the gap code 4 was rejected by Goodbye
TagTableWitness ==
    /\ pc = "decoded"
    /\ cls = "Goodbye"
    /\ PyLen(wire) = 3
    /\ Item(wire, 0) = IntV(4)
    /\ IsRaise(ret)

-----------------------------------------------------------------------------
\* C15: type is fixed.  The type of a message the caller holds is the tag of its
\* variant, from construction on and after every marshal call, and a message
\* that V.unmarshal returns has V's tag as its type whatever the wire form holds.
TypeFixed ==
    /\ obj # None =>
          /\ obj.type.k = "Type"
          /\ obj.type.value = Variants[obj.k].tag
    /\ (pc = "decoded" /\ ret.k \in Classes) =>
          /\ ret.k = cls
          /\ ret.type.k = "Type"
          /\ ret.type.value = Variants[cls].tag

\* Subscribed decoded a received frame with an element too many to a message of type 33
TypeFixedWitness ==
    /\ pc = "decoded"
    /\ obj = None
    /\ cls = "Subscribed"
    /\ PyLen(wire) = 4
    /\ ret.k = "Subscribed"
    /\ ret.type.value = 33

-----------------------------------------------------------------------------
EmptyCountsAsAbsent ==
    (pc = "marshalled" /\ obj.k \in TailTrim) =>
        /\ ret.k = "list"
        /\ Empty(given.kwargs) =>
              /\ ret = Marshal(New(cls, [given EXCEPT !.kwargs = None]))
              /\ PyLen(ret) \leq Required(cls) + 1
        /\ (Empty(given.args) /\ ~NonEmpty(given.kwargs)) =>
              /\ ret = Marshal(New(cls, [given EXCEPT !.args = None, !.kwargs = None]))
              /\ PyLen(ret) = Required(cls)
        /\ (Empty(given.args) /\ NonEmpty(given.kwargs)) =>
              /\ PyLen(ret) = Required(cls) + 2
              /\ Item(ret, Required(cls)) = ListV(<<>>)

\* a Publish constructed with an empty args and an empty kwargs was marshalled
\* to its four required elements
EmptyCountsAsAbsentWitness ==
    /\ pc = "marshalled"
    /\ cls = "Publish"
    /\ given.args = ListV(<<>>)
    /\ given.kwargs = DictV({})
    /\ PyLen(ret) = 4

\* C18 as stated: a present-but-empty collection counts as present, so an
\* empty args (kwargs absent) emits the args position and an empty kwargs
\* emits both the args and the kwargs positions.
EmptyCountsAsPresent ==
    (pc = "marshalled" /\ obj.k \in TailTrim /\ ret.k = "list") =>
        /\ (Empty(given.args) /\ given.kwargs = None) =>
              /\ PyLen(ret) = Required(cls) + 1
              /\ Item(ret, Required(cls)) = given.args
        /\ Empty(given.kwargs) =>
              /\ PyLen(ret) = Required(cls) + 2
              /\ Item(ret, Required(cls)) = given.args
              /\ Item(ret, Required(cls) + 1) = given.kwargs

\* C19: variant count.  The Type enumeration has exactly 20 members and the
\* codec defines exactly 20 message classes, one per member: the class tags
\* are pairwise different and are all the members, and every message that is
\* constructed or decoded is of one of the 20 classes and carries one of the
\* 20 members, the one of its class.
VariantCount ==
    /\ Cardinality(DOMAIN Type) = 20
    /\ Cardinality(Classes) = 20
    /\ \A c, d \in Classes : ClassTag[c] = ClassTag[d] => c = d
    /\ {ClassTag[c] : c \in Classes} = {Type[n] : n \in DOMAIN Type}
    /\ obj # None =>
          /\ obj.k \in Classes
          /\ obj.type = ClassTag[obj.k]
    /\ (pc = "decoded" /\ ret # None /\ ~IsRaise(ret)) =>
          /\ ret.k \in Classes
          /\ ret.type = ClassTag[ret.k]

\* a Yield, the variant of the highest tag, was constructed and marshalled
\* under tag 70
VariantCountWitness ==
    /\ pc = "marshalled"
    /\ obj.k = "Yield"
    /\ obj.type = Type.YIELD
    /\ Item(wire, 0) = IntV(70)

\* C19 as stated: 21 tags and 21 variants, one per tag.
VariantCountAsStated ==
    /\ Cardinality(DOMAIN Type) = 21
    /\ Cardinality(Classes) = 21
    /\ \A c, d \in Classes : ClassTag[c] = ClassTag[d] => c = d
    /\ {ClassTag[c] : c \in Classes} = {Type[n] : n \in DOMAIN Type}
    /\ obj # None => obj.k \in Classes

\* C20: well-formed tail.  Every wire form that marshal returns for a
\* tail-trim variant and that has a kwargs position holds a sequence (possibly
\* empty) in the args position, never the absent marker None, also when the
\* message was constructed with kwargs non-empty and args absent.
WellFormedTail ==
    (pc = "marshalled" /\ obj.k \in TailTrim /\ ret.k = "list"
        /\ PyLen(ret) = Required(obj.k) + 2) =>
          /\ Item(ret, Required(obj.k)) # None
          /\ Item(ret, Required(obj.k)).k = "list"

NormalForm ==
    /\ (pc = "decoded" /\ obj # None /\ cls = obj.k) => ret.k = cls
    /\ (pc = "remarshalled" /\ obj # None /\ cls = obj.k) =>
          /\ wire = Marshal(obj)
          /\ ret.k = "list"
          /\ PyLen(ret) = PyLen(wire)
          /\ ret = wire

\* an Event constructed with an empty args and a non-empty kwargs went through
\* marshal, unmarshal and marshal and came out with its six elements again
NormalFormWitness ==
    /\ pc = "remarshalled"
    /\ obj # None
    /\ cls = "Event"
    /\ obj.k = "Event"
    /\ obj.args = ListV(<<>>)
    /\ NonEmpty(obj.kwargs)
    /\ PyLen(ret) = 6

\* C22: decode validates like construction.  Hello.unmarshal and
\* Welcome.unmarshal of a wire form with the variant's tag, a realm/session and
\* a details return or raise exactly what the constructor returns or raises
\* on that realm/session and details: a message when details is a dict whose
\* roles are non-empty and within the variant's role set, the constructor's
\* ValueError and no message when roles are missing, empty or out of the set.
DecodeValidates ==
    (pc = "decoded" /\ cls \in {"Hello", "Welcome"} /\ PyLen(wire) >= 3
        /\ Item(wire, 0) = IntV(ClassTag[cls].value)) =>
          /\ cls = "Hello" =>
                ret = New("Hello", [realm |-> Item(wire, 1), details |-> Item(wire, 2)])
          /\ cls = "Welcome" =>
                ret = New("Welcome", [session |-> Item(wire, 1), details |-> Item(wire, 2)])
          /\ Item(wire, 2).k = "dict" =>
                IF RolesAccepted(Item(wire, 2), IF cls = "Hello" THEN HelloRoles ELSE WelcomeRoles)
                THEN /\ IsMessageOf(ret, cls)
                     /\ ret.details = Item(wire, 2)
                ELSE /\ IsRaise(ret)
                     /\ ret.exc = "ValueError"
                     /\ ret.text \in {"Invalid message roles", "Invalid message details"}

\* a received Hello frame whose roles name caller and a role outside the set
\* was rejected with the constructor's error
DecodeValidatesWitness ==
    /\ pc = "decoded"
    /\ cls = "Hello"
    /\ obj = None
    /\ wire = ListV(<<IntV(1), StrV("realm1"),
                      DictV({<<"roles", ListV(<<StrV("caller"), StrV("a")>>)>>})>>)
    /\ ret = Raise("ValueError", "Invalid message roles")

\* C23: one error kind for decoding.  Whenever unmarshal is applied to a wire
\* form that is empty, carries another tag than the variant's or has fewer
\* elements than the variant requires, it raises ValueError('Invalid
\* message'), the error of the wrong-tag rejection, and never an IndexError
\* (a decode that returns nothing instead of failing is not judged here).
OneDecodeError ==
    (pc = "decoded" /\ IsRaise(ret)
        /\ \/ PyLen(wire) = 0
           \/ Item(wire, 0) # IntV(ClassTag[cls].value)
           \/ PyLen(wire) < Required(cls)) =>
          ret = Raise("ValueError", "Invalid message")

\* C24: unknown request type.  Error.unmarshal of a wire form with tag 8 and
\* at least 5 elements whose element 1 is not the code of a Type member
\* raises ValueError and returns no message; and every Error that
\* Error.unmarshal returns has a member of Type as its request_type, never a
\* bare integer and never a tag outside the enumeration.
UnknownRequestType ==
    (pc = "decoded" /\ cls = "Error") =>
        /\ (PyLen(wire) >= 5 /\ Item(wire, 0) = IntV(8)
              /\ Item(wire, 1) \notin {IntV(c) : c \in TagCodes}) =>
                /\ IsRaise(ret)
                /\ ret.exc = "ValueError"
        /\ ret.k = "Error" =>
                /\ ret.request_type \in {Type[n] : n \in DOMAIN Type}
                /\ ret.request_type.value \in TagCodes

\* a received Error frame of five elements naming request type 5 was rejected
UnknownRequestTypeWitness ==
    /\ pc = "decoded"
    /\ cls = "Error"
    /\ PyLen(wire) = 5
    /\ Item(wire, 0) = IntV(8)
    /\ Item(wire, 1) = IntV(5)
    /\ IsRaise(ret)
    /\ ret.exc = "ValueError"

\* C25: connection registry.  Under every interleaving of handlers starting,
\* receiving and ending, connections holds exactly the websockets whose
\* connection_handler has started and not ended; a websocket whose handler
\* ended, by a failing recv or by cancellation, is not in it, and the removal
\* never fails.
ConnectionRegistry ==
    /\ connections = {ws \in Websockets : handlers[ws].pc = "receiving"}
    /\ \A ws \in Websockets :
          handlers[ws].pc \in {"none", "receiving", "ConnectionClosed", "CancelledError"}

\* one handler was cancelled, one lost its connection and a third still
\* receives: only the third is registered
ConnectionRegistryWitness ==
    /\ \E a, b, c \in Websockets :
          /\ handlers[a].pc = "CancelledError"
          /\ handlers[b].pc = "ConnectionClosed"
          /\ handlers[c].pc = "receiving"
          /\ handlers[c].message # None
          /\ connections = {c}

\* C26: the session registry only grows.  Every handler that has started has
\* put exactly one Session of its own in sessions, so sessions has as many
\* elements as handlers have ever started; no step removes a Session; and
\* after a handler has ended its websocket is out of connections while its
\* Session is still in sessions.
SessionsOnlyGrow ==
    /\ [](/\ Cardinality(sessions) = Cardinality({ws \in Websockets : handlers[ws].pc # "none"})
          /\ \A ws \in Websockets :
                handlers[ws].pc # "none" =>
                    Cardinality({s \in sessions : s.id = ws}) = 1
          /\ \A ws \in Websockets :
                handlers[ws].pc \in {"ConnectionClosed", "CancelledError"} =>
                    /\ ws \notin connections
                    /\ \E s \in sessions : s.id = ws)
    /\ [][ /\ {s.id : s \in sessions} \subseteq {s.id : s \in sessions'}
           /\ \A ws \in Websockets :
                 (handlers[ws].pc = "none" /\ handlers'[ws].pc # "none") =>
                     Cardinality(sessions') = Cardinality(sessions) + 1
         ]_vars

\* two handlers have ended and one receives: one websocket registered, three Sessions kept
SessionsOnlyGrowWitness ==
    /\ Cardinality(sessions) = 3
    /\ Cardinality(connections) = 1
    /\ Cardinality({ws \in Websockets :
                      handlers[ws].pc \in {"ConnectionClosed", "CancelledError"}}) = 2

\* C27: session stub.  Every Session is in state CLOSED with an empty realm
\* and empty roles, publications, subscriptions, registrations and requests,
\* when it is made and after any sequence of hello, welcome, abort, goodbye
\* and error calls on it: a call changes no field and no state other than
\* CLOSED is reached.
SessionStub ==
    /\ \A s \in sessions :
          /\ s.state = State.CLOSED
          /\ s.realm = ""
          /\ s.roles = <<>>
          /\ s.publications = <<>>
          /\ s.subscriptions = <<>>
          /\ s.registrations = <<>>
          /\ s.requests = <<>>
    /\ lastCall # NoCall => \E s \in sessions : s.id = lastCall.session

\* hello was called on the Session of the second connection, after its handler
\* ended, and the Session is CLOSED
SessionStubWitness ==
    /\ lastCall = [session |-> 2, method |-> "hello"]
    /\ handlers[2].pc = "ConnectionClosed"
    /\ \E s \in sessions : s.id = 2 /\ s.state = "closed"

====
